---- MODULE Spec2Model ----
(***************************************************************************)
(* Model of the smart climate controller (AppDaemon app).                  *)
(*                                                                         *)
(* Units.  Temperatures and relative cost factors are integers in tenths   *)
(* (21.0 C is 210, cost 1.5 is 15); power is in watts; battery state of    *)
(* charge in percent.  The code computes in IEEE doubles; every value the  *)
(* model feeds to a comparison that can come out equal is a multiple of    *)
(* 0.5, which doubles represent exactly, so the integer comparison is the  *)
(* comparison the code makes.                                              *)
(*                                                                         *)
(* Python's None is the empty set and a present value v is {v}.            *)
(***************************************************************************)
EXTENDS Integers, Sequences, FiniteSets, TLC

None == {}
Some(v) == {v}
Val(s) == CHOOSE v \in s : TRUE
IsNone(s) == s = {}

Min(a, b) == IF a <= b THEN a ELSE b
Max(a, b) == IF a >= b THEN a ELSE b
Abs(a) == IF a < 0 THEN -a ELSE a

(***************************************************************************)
(* Configuration defaults (tenths of a degree, watts, percent).            *)
(***************************************************************************)
TempTolerance == 5
AcMinTemp == 160
AcMaxTemp == 300
HeaterMinTemp == 350
SolarExcessThreshold == 500
EcoTempHeating == 160
EcoTempCooling == 260
SmallDifference == 15
LargeDifference == 30
HeatingOffset == 5
CoolingOffset == 5
AggressiveCoolingOffset == 10
TrendMargin == 10
DefaultFloorHeatingCost == 10
DefaultAcHeatingCost == 15

(***************************************************************************)
(* ClimateDecisionEngine                                                   *)
(***************************************************************************)

\* The base decision every branch starts from.
\* The actions of a heating decision.
HeatingActions == {"heat_with_floor", "heat_with_ac", "heat_with_ac_and_floor"}

\* The base structure with the AC left in heat mode (line 65 / 122 / 218
\* reading "heat").
BaseDecision_ac_heating(reason) ==
    [action |-> "no_action", ac_mode |-> "heat", ac_temp |-> None,
     floor_heating |-> FALSE, reason |-> reason]

BaseDecision(reason) ==
    [action |-> "no_action", ac_mode |-> "off", ac_temp |-> None,
     floor_heating |-> FALSE, reason |-> reason]

\* _get_central_heater_temp: the live reading, 0.0 when there is no entity or
\* the state is not a number.
get_central_heater_temp(heater_state) ==
    IF IsNone(heater_state) THEN 0 ELSE Val(heater_state)

\* _get_temperature_trend.  forecast_data is a record: keys is the set of keys
\* the dict holds, temperature and current_temperature are nullable values.
get_temperature_trend(f) ==
    IF "temperature" \notin f.keys THEN "steady"
    ELSE LET current  == IF "current_temperature" \in f.keys
                         THEN f.current_temperature ELSE Some(0)
             forecast == f.temperature
         IN  IF IsNone(current) \/ IsNone(forecast) THEN "steady"   \* TypeError
             ELSE IF Val(forecast) > Val(current) + TrendMargin THEN "rising"
             ELSE IF Val(forecast) < Val(current) - TrendMargin THEN "dropping"
             ELSE "steady"

HeatingSetpoint(target_temp) == Min(AcMaxTemp, target_temp + HeatingOffset)

FloorHeatingUsable(room_config, heater_temp) ==
    room_config.floor_heating_available /\ heater_temp > HeaterMinTemp

EnoughRenewable(renewable_power) == renewable_power > SolarExcessThreshold

\* _get_heating_decision
get_heating_decision(room_config, current_temp, target_temp, renewable_power, weather_forecast, heater_state) ==
    LET temp_difference == target_temp - current_temp
        heater_temp == get_central_heater_temp(heater_state)
        enough_renewable == EnoughRenewable(renewable_power)
        temp_trend == get_temperature_trend(weather_forecast)
        floorOnly(reason) ==
            [action |-> "heat_with_floor", ac_mode |-> "off", ac_temp |-> None,
             floor_heating |-> TRUE, reason |-> reason]
        acOnly(reason) ==
            [action |-> "heat_with_ac", ac_mode |-> "heat",
             ac_temp |-> Some(HeatingSetpoint(target_temp)),
             floor_heating |-> FALSE, reason |-> reason]
        both(reason) ==
            [action |-> "heat_with_ac_and_floor", ac_mode |-> "heat",
             ac_temp |-> Some(HeatingSetpoint(target_temp)),
             floor_heating |-> TRUE, reason |-> reason]
    IN  IF FloorHeatingUsable(room_config, heater_temp)
        THEN IF temp_difference < SmallDifference
             THEN floorOnly("floor_small_difference")
             ELSE IF room_config.ac_heating_available
             THEN IF enough_renewable \/ temp_difference > LargeDifference
                  THEN both(IF enough_renewable THEN "both_renewable"
                                                ELSE "both_large_difference")
                  ELSE IF temp_trend = "dropping"
                       THEN floorOnly("floor_trend_dropping")
                  ELSE IF room_config.floor_heating_cost <= room_config.ac_heating_cost
                       THEN floorOnly("floor_cheaper")
                  ELSE acOnly("ac_cheaper")
             ELSE floorOnly("floor_no_ac")
        ELSE IF room_config.ac_heating_available
             THEN acOnly(IF ~room_config.floor_heating_available
                         THEN "ac_no_floor" ELSE "ac_heater_too_cold")
        ELSE BaseDecision("no_heating_option")

\* The cooling setpoint without the aggressive step (lines 241-243 dropped).
CoolingSetpoint_never_aggressive(target_temp, renewable_power) ==
    Max(AcMinTemp, target_temp - CoolingOffset)

CoolingSetpoint(target_temp, renewable_power) ==
    IF renewable_power > SolarExcessThreshold
       /\ renewable_power > SolarExcessThreshold * 3
    THEN Max(AcMinTemp, target_temp - AggressiveCoolingOffset)
    ELSE Max(AcMinTemp, target_temp - CoolingOffset)

\* _get_cooling_decision commanding the AC without looking at
\* ac_cooling_available.
get_cooling_decision_unchecked(room_config, current_temp, target_temp, renewable_power) ==
    [action |-> "cool_with_ac", ac_mode |-> "cool",
     ac_temp |-> Some(CoolingSetpoint(target_temp, renewable_power)),
     floor_heating |-> FALSE, reason |-> "cool"]

\* _get_cooling_decision
get_cooling_decision(room_config, current_temp, target_temp, renewable_power) ==
    IF room_config.ac_cooling_available
    THEN [action |-> "cool_with_ac", ac_mode |-> "cool",
          ac_temp |-> Some(CoolingSetpoint(target_temp, renewable_power)),
          floor_heating |-> FALSE,
          reason |-> IF renewable_power > SolarExcessThreshold
                     THEN IF renewable_power > SolarExcessThreshold * 3
                          THEN "cool_aggressive" ELSE "cool_renewable"
                     ELSE "cool"]
    ELSE BaseDecision("no_cooling_option")

RoomTolerance(room_config) ==
    IF IsNone(room_config.temp_tolerance) THEN TempTolerance
    ELSE Val(room_config.temp_tolerance)

\* The target the decision is taken against (lines 85-94).
EffectiveTarget(current_temp, target_temp, home_occupied, eco_mode) ==
    IF ~home_occupied /\ eco_mode
    THEN IF current_temp < target_temp THEN EcoTempHeating
         ELSE IF current_temp > target_temp THEN EcoTempCooling
         ELSE target_temp
    ELSE target_temp

\* get_climate_decision without its window check (lines 75-78 dropped).
get_climate_decision_window_ignored(c) ==
    LET room_tolerance == RoomTolerance(c.room_config)
        effective_target == EffectiveTarget(c.current_temp, c.target_temp,
                                            c.home_occupied, c.eco_mode)
    IN  IF c.current_temp < effective_target - room_tolerance
        THEN get_heating_decision(c.room_config, c.current_temp, effective_target,
                                  c.renewable_power, c.weather_forecast,
                                  c.heater_state)
        ELSE IF c.current_temp > effective_target + room_tolerance
             THEN get_cooling_decision(c.room_config, c.current_temp, effective_target,
                                       c.renewable_power)
        ELSE BaseDecision("within_tolerance")

\* get_climate_decision.  c is the record of its arguments and of what it
\* reads: the room's configuration, the eco_mode_when_away option and the live
\* central heater reading.
get_climate_decision(c) ==
    LET room_tolerance == RoomTolerance(c.room_config)
        effective_target == EffectiveTarget(c.current_temp, c.target_temp,
                                            c.home_occupied, c.eco_mode)
    IN  IF c.window_open THEN BaseDecision("window_open")
        ELSE IF c.current_temp < effective_target - room_tolerance
             THEN get_heating_decision(c.room_config, c.current_temp, effective_target,
                                  c.renewable_power, c.weather_forecast,
                                  c.heater_state)
        ELSE IF c.current_temp > effective_target + room_tolerance
             THEN get_cooling_decision(c.room_config, c.current_temp, effective_target,
                                  c.renewable_power)
        ELSE BaseDecision("within_tolerance")

(***************************************************************************)
(* PowerManager                                                            *)
(***************************************************************************)
BatteryMax == 10
MinSolarExcess == 300
SolarThresholdChange == 300
MinBatteryPercent == 20
BatteryPowerScale == 1000

\* battery_energy_left in Wh: (soc / 100.0) * battery_max kWh.
BatteryEnergyLeft(soc) == soc * BatteryMax * 10

\* A battery credit that shrinks as the charge grows.
BatteryPower_decreasing(excess_percent) ==
    ((100 - MinBatteryPercent - excess_percent) * BatteryPowerScale)
        \div (100 - MinBatteryPercent)

\* The power a battery above the reserve is credited with (line 107).  The
\* state-of-charge values of the model make the division exact.
BatteryPower(excess_percent) ==
    (excess_percent * BatteryPowerScale) \div (100 - MinBatteryPercent)

\* get_available_renewable_power, of a PowerState p.
get_available_renewable_power(p) ==
    IF p.solar_excess < -MinSolarExcess THEN Abs(p.solar_excess)
    ELSE IF p.battery_state_of_charge > MinBatteryPercent
            /\ p.battery_state_of_charge - MinBatteryPercent > 0
         THEN Max(BatteryPower(p.battery_state_of_charge - MinBatteryPercent),
                  p.solar_excess)
    ELSE p.solar_excess

\* update_solar_excess
update_solar_excess(p, value) == [p EXCEPT !.solar_excess = value]

\* update_battery_soc
update_battery_soc(p, value) ==
    [p EXCEPT !.battery_state_of_charge = value,
              !.battery_energy_left = BatteryEnergyLeft(value)]

\* update_heater_temperature
update_heater_temperature(p, value) == [p EXCEPT !.heater_temperature = value]

\* update_power_status storing 0 for a reading that is not a number.
update_power_status_zeroing(p, solar, battery, heater) ==
    LET p1 == update_solar_excess(p, IF IsNone(solar) THEN 0 ELSE Val(solar))
        p2 == update_battery_soc(p1, IF IsNone(battery) THEN 0 ELSE Val(battery))
    IN  update_heater_temperature(p2, IF IsNone(heater) THEN 0 ELSE Val(heater))

\* update_power_status: each field is read from its entity; a reading that is
\* not a number leaves the field as it was.
update_power_status(p, solar, battery, heater) ==
    LET p1 == IF IsNone(solar) THEN p ELSE update_solar_excess(p, Val(solar))
        p2 == IF IsNone(battery) THEN p1 ELSE update_battery_soc(p1, Val(battery))
    IN  IF IsNone(heater) THEN p2 ELSE update_heater_temperature(p2, Val(heater))

\* PowerManager.__init__ before its first update_power_status.
InitialPowerState ==
    [solar_excess |-> 0, battery_state_of_charge |-> 0,
     battery_energy_left |-> 0, heater_temperature |-> 0]

\* calculate_optimal_heater_temp.  Its temperatures are integers in
\* hundredths of a degree, so that a configured bound can carry two decimals;
\* config holds the five configured values, outdoor_temp is what
\* get_outdoor_temperature returned (None: unavailable).
DefaultHeaterConfig ==
    [min_outdoor_temp |-> -1000, max_outdoor_temp |-> 2000,
     min_heater_temp |-> 3500, max_heater_temp |-> 5500,
     default_heater_temp |-> 4500]

\* outdoor_temp = max(min_outdoor_temp, min(max_outdoor_temp, outdoor_temp))
ClampOutdoor(config, t) ==
    Max(config.min_outdoor_temp, Min(config.max_outdoor_temp, t))

\* heater_temp before rounding, as the fraction
\* InterpolationNum / temp_range (lines 158-166), for an outdoor temperature t.
InterpolationNum(config, t) ==
    config.min_heater_temp * (config.max_outdoor_temp - config.min_outdoor_temp)
      + (config.max_outdoor_temp - t)
          * (config.max_heater_temp - config.min_heater_temp)

\* round(n / d, 1) for n >= 0 and d > 0 in hundredths: the nearest multiple
\* of 0.1, a tie going to the even one.
RoundToTenth(n, d) ==
    LET k == n \div (10 * d)
        r == n - k * 10 * d
    IN  IF 2 * r > 10 * d \/ (2 * r = 10 * d /\ k % 2 = 1)
        THEN 10 * (k + 1) ELSE 10 * k

\* The same without the clamp of the outdoor temperature.
calculate_optimal_heater_temp_unclamped(config, outdoor_temp) ==
    IF IsNone(outdoor_temp) THEN config.default_heater_temp
    ELSE LET temp_range == config.max_outdoor_temp - config.min_outdoor_temp
         IN  IF temp_range = 0
             THEN (config.min_heater_temp + config.max_heater_temp) \div 2
             ELSE RoundToTenth(InterpolationNum(config, Val(outdoor_temp)),
                               temp_range)

calculate_optimal_heater_temp(config, outdoor_temp) ==
    IF IsNone(outdoor_temp) THEN config.default_heater_temp
    ELSE LET temp_range == config.max_outdoor_temp - config.min_outdoor_temp
             t == ClampOutdoor(config, Val(outdoor_temp))
         IN  IF temp_range = 0
             THEN (config.min_heater_temp + config.max_heater_temp) \div 2
             ELSE RoundToTenth(InterpolationNum(config, t), temp_range)

(***************************************************************************)
(* ScheduleManager and the EntityManager lookups it uses                   *)
(***************************************************************************)
DefaultTargetTempDay == 210
DefaultTargetTempNight == 180

\* get_target_day_temp / get_target_night_temp: the room's fixed value, else
\* the input_number entity's state when it is a number, else the default.
get_target_day_temp(room_config, day_state) ==
    IF ~IsNone(room_config.target_temp_day) THEN Val(room_config.target_temp_day)
    ELSE IF ~IsNone(day_state) THEN Val(day_state)
    ELSE DefaultTargetTempDay

get_target_night_temp(room_config, night_state) ==
    IF ~IsNone(room_config.target_temp_night) THEN Val(room_config.target_temp_night)
    ELSE IF ~IsNone(night_state) THEN Val(night_state)
    ELSE DefaultTargetTempNight

\* _get_period_temp
get_period_temp(room_config, period, day_state, night_state) ==
    IF period = "day" THEN get_target_day_temp(room_config, day_state)
    ELSE get_target_night_temp(room_config, night_state)

\* get_target_temperature using the current period for an unoccupied room
\* that has no away temperature.
get_target_temperature_current_period(room_config, room_occupied, period, day_state, night_state) ==
    LET presence_required ==
            IF IsNone(room_config.presence_required) THEN FALSE
            ELSE Val(room_config.presence_required)
    IN  IF presence_required /\ ~room_occupied /\ ~IsNone(room_config.away_temp)
        THEN Val(room_config.away_temp)
        ELSE get_period_temp(room_config, period, day_state, night_state)

\* get_target_temperature.  presence_required is nullable: a room whose
\* configuration lacks the key reads as False here.
get_target_temperature(room_config, room_occupied, period, day_state, night_state) ==
    LET presence_required ==
            IF IsNone(room_config.presence_required) THEN FALSE
            ELSE Val(room_config.presence_required)
    IN  IF presence_required /\ ~room_occupied
        THEN IF ~IsNone(room_config.away_temp) THEN Val(room_config.away_temp)
             ELSE get_period_temp(room_config, "night", day_state, night_state)
        ELSE get_period_temp(room_config, period, day_state, night_state)

\* set_period storing whatever it is given.
set_period_unchecked(current, period) == period

\* set_period
set_period(current, period) ==
    IF period \notin {"day", "night"} THEN current ELSE period

(***************************************************************************)
(* SmartClimateController: evaluation and actuation.                       *)
(* An actuation state a is [ac, floor, calls, evals, failing, errors,      *)
(* raised]: the observed state of every room's AC and floor switch, the    *)
(* service calls the running handler has made so far, the rooms it has     *)
(* called _evaluate_room for, the services whose call raises while this    *)
(* handler runs, the calls that raised and were caught and logged, and     *)
(* whether an exception has left _apply_climate_decision uncaught.         *)
(***************************************************************************)
ServiceCall(service, r, mode, temperature) ==
    [service |-> service, room |-> r, hvac_mode |-> mode, temperature |-> temperature]

Services ==
    {"climate/set_hvac_mode", "climate/set_temperature",
     "switch/turn_on", "switch/turn_off"}

Truthy(temperature) == ~IsNone(temperature) /\ Val(temperature) /= 0

\* _set_ac without its comparison with the observed state (line 353 dropped).
set_ac_unconditional(a, r, mode, temperature) ==
    LET with_temp == Truthy(temperature) /\ mode \notin {"off", "fan_only"}
        set_mode == ServiceCall("climate/set_hvac_mode", r, mode,
                                IF with_temp THEN temperature ELSE None)
    IN  [a EXCEPT !.ac[r].hvac_mode = mode, !.calls = Append(@, set_mode)]

\* _set_ac.  Its body is one try block: a call that raises ends it, the
\* except clause logs the error and _set_ac returns normally.
set_ac(a, r, mode, temperature) ==
    LET current_mode == a.ac[r].hvac_mode
        current_temp == a.ac[r].temperature
        with_temp == Truthy(temperature) /\ mode \notin {"off", "fan_only"}
        set_mode == ServiceCall("climate/set_hvac_mode", r, mode,
                                IF with_temp THEN temperature ELSE None)
        set_temp == ServiceCall("climate/set_temperature", r, "-", temperature)
    IN  IF current_mode /= mode \/ (Truthy(temperature) /\ current_temp /= temperature)
        THEN IF set_mode.service \in a.failing
             THEN [a EXCEPT !.errors = Append(@, set_mode)]
             ELSE LET a1 == [a EXCEPT !.ac[r].hvac_mode = mode,
                                      !.calls = Append(@, set_mode)]
                  IN  IF with_temp /\ current_temp /= temperature
                      THEN IF set_temp.service \in a.failing
                           THEN [a1 EXCEPT !.errors = Append(@, set_temp)]
                           ELSE [a1 EXCEPT !.ac[r].temperature = temperature,
                                           !.calls = Append(@, set_temp)]
                      ELSE a1
        ELSE a

\* _apply_climate_decision.  The switch call is outside any try block: when
\* it raises, the exception leaves the function.
apply_climate_decision(a, r, decision) ==
    LET a1 == IF decision.action \in {"heat_with_ac", "cool_with_ac"}
              THEN set_ac(a, r, decision.ac_mode, decision.ac_temp)
              ELSE a
        new_state == IF decision.floor_heating THEN "on" ELSE "off"
        turn == ServiceCall("switch/turn_" \o new_state, r, "-", None)
    IN  IF a1.floor[r] /= new_state
        THEN IF turn.service \in a1.failing
             THEN [a1 EXCEPT !.raised = TRUE]
             ELSE [a1 EXCEPT !.floor[r] = new_state, !.calls = Append(@, turn)]
        ELSE a1

(***************************************************************************)
(* State                                                                   *)
(***************************************************************************)
VARIABLES
    \* configuration (fixed after start-up)
    rooms, eco_mode, room_timeout, home_timeout,
    \* Home Assistant entity states, as get_state returns them
    temp_state, window_state, presence_state, global_presence_state,
    target_day_state, target_night_state,
    heater_state, solar_state, battery_state,
    ac_state, floor_state,
    \* WeatherManager.forecast_data
    forecast_data,
    \* PowerManager: solar_excess, battery_state_of_charge, battery_energy_left,
    \* heater_temperature
    power,
    \* ScheduleManager.current_period
    current_period,
    \* PresenceManager
    room_presence, global_presence, room_timers, home_timer,
    \* AppDaemon: the scheduler's timers and the callbacks dispatched to the
    \* app and not yet run
    armed, named, queue,
    \* the handler the last step ran (op none: the step was the environment's),
    \* the event it was given, the rooms it evaluated, the service calls it made
    last,
    \* one call of the function under study (get_climate_decision, or
    \* calculate_optimal_heater_temp in SpecHeater): its arguments, its
    \* result, its stage
    call, decision, pc

vars == <<rooms, eco_mode, room_timeout, home_timeout,
          temp_state, window_state, presence_state, global_presence_state,
          target_day_state, target_night_state,
          heater_state, solar_state, battery_state, ac_state, floor_state,
          forecast_data, power, current_period,
          room_presence, global_presence, room_timers, home_timer,
          armed, named, queue, last, call, decision, pc>>

configVars == <<rooms, eco_mode, room_timeout, home_timeout>>
sensorVars == <<window_state, target_day_state, target_night_state,
                heater_state, solar_state, battery_state, forecast_data>>
presenceSensorVars == <<presence_state, global_presence_state>>
actuatorVars == <<ac_state, floor_state>>
presenceVars == <<room_presence, global_presence, room_timers, home_timer>>
decideVars == <<call, decision, pc>>

\* self.rooms, in iteration order, and the global presence sensors.
RoomOrder == <<"living", "bedroom">>
Rooms == {RoomOrder[i] : i \in 1..Len(RoomOrder)}
GlobalSensors == {"presence_sensor_1", "presence_sensor_2"}

\* A room configured with no key but its name: every lookup takes its default.
DefaultRoomConfig ==
    [floor_heating_available |-> TRUE, ac_heating_available |-> TRUE,
     ac_cooling_available |-> TRUE,
     floor_heating_cost |-> DefaultFloorHeatingCost,
     ac_heating_cost |-> DefaultAcHeatingCost,
     temp_tolerance |-> None, presence_required |-> None, away_temp |-> None,
     target_temp_day |-> None, target_temp_night |-> None]

EmptyForecast == [keys |-> {}, temperature |-> None, current_temperature |-> None]

DefaultRoomTimeout == 900
DefaultHomeTimeout == 1800

(***************************************************************************)
(* _evaluate_room.  e is what the handler has made of the managers' state  *)
(* by the time it evaluates: [room_presence, global_presence, power,       *)
(* period].                                                                *)
(***************************************************************************)
Snapshot(r, e) ==
    [room_config |-> rooms[r],
     current_temp |-> Val(temp_state[r]),
     target_temp |-> get_target_temperature(rooms[r], e.room_presence[r], e.period,
                                            target_day_state[r], target_night_state[r]),
     window_open |-> window_state[r] = "on",
     room_occupied |-> e.room_presence[r],
     home_occupied |-> e.global_presence,
     eco_mode |-> eco_mode,
     renewable_power |-> get_available_renewable_power(e.power),
     weather_forecast |-> forecast_data,
     heater_state |-> heater_state]

\* _evaluate_room taking an unavailable reading as 0.0 instead of returning.
evaluate_room_reading_as_zero(a, r, e) ==
    LET a1 == [a EXCEPT !.evals = Append(@, r)]
        reading == IF IsNone(temp_state[r]) THEN Some(0) ELSE temp_state[r]
        snapshot ==
            [room_config |-> rooms[r],
             current_temp |-> Val(reading),
             target_temp |-> get_target_temperature(rooms[r], e.room_presence[r],
                                 e.period, target_day_state[r], target_night_state[r]),
             window_open |-> window_state[r] = "on",
             room_occupied |-> e.room_presence[r],
             home_occupied |-> e.global_presence,
             eco_mode |-> eco_mode,
             renewable_power |-> get_available_renewable_power(e.power),
             weather_forecast |-> forecast_data,
             heater_state |-> heater_state]
    IN  apply_climate_decision(a1, r, get_climate_decision(snapshot))

evaluate_room(a, r, e) ==
    LET a1 == [a EXCEPT !.evals = Append(@, r)]
    IN  IF IsNone(temp_state[r]) THEN a1
        ELSE apply_climate_decision(a1, r, get_climate_decision(Snapshot(r, e)))

\* The loop over self.rooms stopping after its first room.
evaluate_rooms_first_only(a, rs, e) ==
    IF rs = <<>> THEN a ELSE evaluate_room(a, Head(rs), e)

\* for room_id in self.rooms: self._evaluate_room(room_id).  An exception
\* that leaves _evaluate_room leaves the loop and the handler.
RECURSIVE evaluate_rooms(_, _, _)
evaluate_rooms(a, rs, e) ==
    IF rs = <<>> \/ a.raised THEN a
    ELSE evaluate_rooms(evaluate_room(a, Head(rs), e), Tail(rs), e)

\* The actuation state a handler starts from when the services in failing
\* raise, and when every service call succeeds.
ActuationWith(failing) ==
    [ac |-> ac_state, floor |-> floor_state, calls |-> <<>>, evals |-> <<>>,
     failing |-> failing, errors |-> <<>>, raised |-> FALSE]

Actuation == ActuationWith({})

(***************************************************************************)
(* AppDaemon's scheduler.  run_in arms a timer and returns its handle;     *)
(* cancel_timer removes an armed timer; a timer that expires leaves the    *)
(* scheduler and its callback joins the app's queue, where a later         *)
(* cancel_timer no longer reaches it.  Durations are not modelled beyond   *)
(* their order: the timers of one slot (a room, or the home) run for the   *)
(* same time, so they expire in the order they were armed.                 *)
(*                                                                         *)
(* Handles are opaque.  The model keeps, per slot, the number of armed     *)
(* timers (armed) and the stage of the timer the stored handle names       *)
(* (named: "armed", or "fired" once its callback is queued); the armed     *)
(* timers no stored handle names are the slot's orphans.                   *)
(***************************************************************************)
MaxQueue == 2
MaxArmed == 2

Slots == Rooms \cup {"home"}
Handle == Some("handle")

Event(type, r, sensor, new) ==
    [type |-> type, room |-> r, sensor |-> sensor, new |-> new]

\* cancel_timer(handle) on slot k of scheduler state [armed, named].
cancel_timer(sch, k, handle) ==
    IF ~IsNone(handle) /\ sch.named[k] = "armed"
    THEN [sch EXCEPT !.armed[k] = @ - 1, !.named[k] = "none"]
    ELSE [sch EXCEPT !.named[k] = "none"]

\* run_in(callback, timeout) on slot k: the new timer is the one the handle
\* about to be stored names.
run_in(sch, k) == [sch EXCEPT !.armed[k] = @ + 1, !.named[k] = "armed"]

(***************************************************************************)
(* PresenceManager.  ps is [room_presence, global_presence, room_timers,   *)
(* home_timer, sch].                                                       *)
(***************************************************************************)
PresenceNow ==
    [room_presence |-> room_presence, global_presence |-> global_presence,
     room_timers |-> room_timers, home_timer |-> home_timer,
     sch |-> [armed |-> armed, named |-> named]]

\* update_global_presence
update_global_presence(ps, is_present) ==
    LET ps1 == [ps EXCEPT !.global_presence = is_present]
    IN  IF is_present /\ ~IsNone(ps1.home_timer)
        THEN [ps1 EXCEPT !.sch = cancel_timer(@, "home", ps1.home_timer),
                         !.home_timer = None]
        ELSE IF ~is_present /\ home_timeout > 0
        THEN [ps1 EXCEPT !.sch = run_in(cancel_timer(@, "home", ps1.home_timer), "home"),
                         !.home_timer = Handle]
        ELSE ps1

\* update_room_presence arming its timer whatever the timeout (line 74 dropped).
update_room_presence_always_arms(ps, r, is_present) ==
    LET ps1 == [ps EXCEPT !.room_presence[r] = is_present]
    IN  IF is_present
        THEN LET ps2 == update_global_presence(ps1, TRUE)
             IN  IF ~IsNone(ps2.room_timers[r])
                 THEN [ps2 EXCEPT !.sch = cancel_timer(@, r, ps2.room_timers[r]),
                                  !.room_timers[r] = None]
                 ELSE ps2
        ELSE [ps1 EXCEPT !.sch = run_in(cancel_timer(@, r, ps1.room_timers[r]), r),
                         !.room_timers[r] = Handle]

\* update_room_presence
update_room_presence(ps, r, is_present) ==
    LET ps1 == [ps EXCEPT !.room_presence[r] = is_present]
    IN  IF is_present
        THEN LET ps2 == update_global_presence(ps1, TRUE)
             IN  IF ~IsNone(ps2.room_timers[r])
                 THEN [ps2 EXCEPT !.sch = cancel_timer(@, r, ps2.room_timers[r]),
                                  !.room_timers[r] = None]
                 ELSE ps2
        ELSE IF room_timeout > 0
        THEN [ps1 EXCEPT !.sch = run_in(cancel_timer(@, r, ps1.room_timers[r]), r),
                         !.room_timers[r] = Handle]
        ELSE ps1

\* _on_room_timeout without its second look at the sensor (line 119 dropped).
room_timeout_presence_unchecked(ps, r) ==
    [ps EXCEPT !.room_timers[r] = None, !.sch.named[r] = "none",
               !.room_presence[r] = FALSE]

\* _on_room_timeout, up to the evaluation it triggers: whether the sensor
\* still reads off decides.
room_timeout_presence(ps, r) ==
    LET ps1 == [ps EXCEPT !.room_timers[r] = None, !.sch.named[r] = "none"]
    IN  IF presence_state[r] = "off"
        THEN [ps1 EXCEPT !.room_presence[r] = FALSE]
        ELSE ps1

AllAway == \A g \in GlobalSensors : global_presence_state[g] /= "on"

\* _on_home_timeout, up to the evaluations it triggers.
home_timeout_presence(ps) ==
    LET ps1 == [ps EXCEPT !.home_timer = None, !.sch.named["home"] = "none"]
    IN  IF AllAway THEN [ps1 EXCEPT !.global_presence = FALSE] ELSE ps1

(***************************************************************************)
(* Handlers.  Each is one step: the app runs a callback to completion      *)
(* before the next is taken from its queue.                                *)
(***************************************************************************)
NoHandler ==
    [op |-> "none", room |-> "-", new |-> "-", evals |-> <<>>, calls |-> <<>>,
     errors |-> <<>>, raised |-> FALSE]

Env(ps) ==
    [room_presence |-> ps.room_presence, global_presence |-> ps.global_presence,
     power |-> power, period |-> current_period]

\* The state a presence handler leaves: ps in the PresenceManager and the
\* scheduler, a in the actuators.
Commit(ps, a, op, r, new) ==
    /\ room_presence' = ps.room_presence
    /\ global_presence' = ps.global_presence
    /\ room_timers' = ps.room_timers
    /\ home_timer' = ps.home_timer
    /\ armed' = ps.sch.armed
    /\ named' = ps.sch.named
    /\ ac_state' = a.ac
    /\ floor_state' = a.floor
    /\ last' = [op |-> op, room |-> r, new |-> new,
                evals |-> a.evals, calls |-> a.calls,
                errors |-> a.errors, raised |-> a.raised]
    /\ queue' = Tail(queue)
    /\ UNCHANGED <<configVars, sensorVars, temp_state, presenceSensorVars, power,
                   current_period, decideVars>>

\* _register_callbacks listens to a room's presence sensor unless the room
\* sets presence_required to false.
PresenceListened(r) ==
    IF IsNone(rooms[r].presence_required) THEN TRUE
    ELSE Val(rooms[r].presence_required)

\* A room's presence sensor changes state; Home Assistant dispatches the
\* state callback.
RoomSensorChange(r, new) ==
    /\ presence_state[r] /= new
    /\ Len(queue) < MaxQueue
    /\ presence_state' = [presence_state EXCEPT ![r] = new]
    /\ queue' = IF PresenceListened(r)
                THEN Append(queue, Event("presence", r, "-", new))
                ELSE queue
    /\ last' = NoHandler
    /\ UNCHANGED <<configVars, sensorVars, temp_state, global_presence_state, actuatorVars,
                   power, current_period, presenceVars, armed, named, decideVars>>

\* A global presence sensor changes state.
GlobalSensorChange(g, new) ==
    /\ global_presence_state[g] /= new
    /\ Len(queue) < MaxQueue
    /\ global_presence_state' = [global_presence_state EXCEPT ![g] = new]
    /\ queue' = Append(queue, Event("global_presence", "-", g, new))
    /\ last' = NoHandler
    /\ UNCHANGED <<configVars, sensorVars, temp_state, presence_state, actuatorVars,
                   power, current_period, presenceVars, armed, named, decideVars>>

\* The oldest armed timer of slot k expires: the scheduler dispatches its
\* callback.  The timer the stored handle names is the slot's newest.
Orphans(k) == armed[k] - (IF named[k] = "armed" THEN 1 ELSE 0)

TimerExpire(k) ==
    /\ armed[k] > 0
    /\ Len(queue) < MaxQueue
    /\ armed' = [armed EXCEPT ![k] = @ - 1]
    /\ named' = IF Orphans(k) = 0 THEN [named EXCEPT ![k] = "fired"] ELSE named
    /\ queue' = Append(queue, Event(IF k = "home" THEN "home_timeout" ELSE "room_timeout",
                                    k, "-", "-"))
    /\ last' = NoHandler
    /\ UNCHANGED <<configVars, sensorVars, temp_state, presenceSensorVars, actuatorVars,
                   power, current_period, presenceVars, decideVars>>

\* _on_presence_change, started from actuation state a0.
PresenceChange(a0) ==
    /\ queue /= <<>>
    /\ Head(queue).type = "presence"
    /\ LET r == Head(queue).room
           is_present == Head(queue).new = "on"
           ps == update_room_presence(PresenceNow, r, is_present)
       IN  /\ ps.sch.armed[r] <= MaxArmed
           /\ Commit(ps, evaluate_room(a0, r, Env(ps)),
                     "on_presence_change", r, Head(queue).new)

\* _on_global_presence_change
GlobalPresenceChange(a0) ==
    /\ queue /= <<>>
    /\ Head(queue).type = "global_presence"
    /\ LET is_present == Head(queue).new = "on"
           ps == update_global_presence(PresenceNow, is_present)
       IN  /\ ps.sch.armed["home"] <= MaxArmed
           /\ Commit(ps, evaluate_rooms(a0, RoomOrder, Env(ps)),
                     "on_global_presence_change", "-", Head(queue).new)

\* _on_room_timeout
RoomTimeout(a0) ==
    /\ queue /= <<>>
    /\ Head(queue).type = "room_timeout"
    /\ LET r == Head(queue).room
           ps == room_timeout_presence(PresenceNow, r)
       IN  Commit(ps,
                  IF presence_state[r] = "off"
                  THEN evaluate_room(a0, r, Env(ps)) ELSE a0,
                  "on_room_timeout", r, "-")

\* _on_home_timeout
HomeTimeout(a0) ==
    /\ queue /= <<>>
    /\ Head(queue).type = "home_timeout"
    /\ LET ps == home_timeout_presence(PresenceNow)
       IN  Commit(ps,
                  IF AllAway
                  THEN evaluate_rooms(a0, RoomOrder, Env(ps)) ELSE a0,
                  "on_home_timeout", "-", "-")

\* The four handlers when every service call succeeds.
on_presence_change == PresenceChange(Actuation)
on_global_presence_change == GlobalPresenceChange(Actuation)
on_room_timeout == RoomTimeout(Actuation)
on_home_timeout == HomeTimeout(Actuation)

(***************************************************************************)
(* Spec: the presence sensors, the timers and the four presence handlers,  *)
(* in an environment whose other readings stay as they were at start-up    *)
(* and whose service calls succeed.                                        *)
(***************************************************************************)
SensorStates == {"on", "off"}
\* The temperature readings of the rooms: a cold and a warm room, or a room
\* whose sensor is unavailable.
TempScenarios ==
    {[r \in Rooms |-> IF r = "living" THEN Some(170) ELSE Some(220)],
     [r \in Rooms |-> IF r = "living" THEN None ELSE Some(170)]}

BedroomConfig ==
    [DefaultRoomConfig EXCEPT !.presence_required = Some(TRUE),
                              !.away_temp = Some(160)]

\* PresenceManager.__init__ and _update_initial_states.
InitialPresence ==
    /\ room_presence = [r \in Rooms |-> presence_state[r] = "on"]
    /\ global_presence = (\E g \in GlobalSensors : global_presence_state[g] = "on")
    /\ room_timers = [r \in Rooms |-> None]
    /\ home_timer = None
    /\ armed = [k \in Slots |-> 0]
    /\ named = [k \in Slots |-> "none"]
    /\ queue = <<>>

IdleDecide ==
    /\ call = [room_config |-> DefaultRoomConfig]
    /\ decision = BaseDecision("none")
    /\ pc = "idle"

InitConfig ==
    /\ rooms = [r \in Rooms |-> IF r = "bedroom" THEN BedroomConfig
                                ELSE DefaultRoomConfig]
    /\ eco_mode = TRUE

\* room_presence_timeout and home_presence_timeout left at their defaults.
DefaultTimeouts ==
    /\ room_timeout = DefaultRoomTimeout
    /\ home_timeout = DefaultHomeTimeout

\* The configured timeouts, in seconds: the default, or 0 (no debouncing).
RoomTimeouts == {0, DefaultRoomTimeout}
HomeTimeouts == {0, DefaultHomeTimeout}

\* The readings the presence handlers do not change.
InitSensors ==
    /\ window_state = [r \in Rooms |-> "off"]
    /\ target_day_state = [r \in Rooms |-> None]
    /\ target_night_state = [r \in Rooms |-> None]
    /\ heater_state = Some(400)
    /\ solar_state = Some(0)
    /\ battery_state = Some(0)
    /\ forecast_data = EmptyForecast

InitActuators ==
    /\ ac_state = [r \in Rooms |-> [hvac_mode |-> "off", temperature |-> None]]
    /\ floor_state = [r \in Rooms |-> "off"]

\* PowerManager.__init__ ends with update_power_status.
InitPower ==
    power = update_power_status(InitialPowerState, solar_state, battery_state,
                                heater_state)

Init ==
    /\ InitConfig
    /\ room_timeout \in RoomTimeouts
    /\ home_timeout \in HomeTimeouts
    /\ InitSensors
    /\ temp_state \in TempScenarios
    /\ presence_state \in [Rooms -> SensorStates]
    /\ global_presence_state \in [GlobalSensors -> SensorStates]
    /\ InitActuators
    /\ InitPower
    /\ current_period = "day"
    /\ InitialPresence
    /\ last = NoHandler
    /\ IdleDecide

Next ==
    \/ \E r \in Rooms, new \in SensorStates : RoomSensorChange(r, new)
    \/ \E g \in GlobalSensors, new \in SensorStates : GlobalSensorChange(g, new)
    \/ \E k \in Slots : TimerExpire(k)
    \/ on_presence_change
    \/ on_global_presence_change
    \/ on_room_timeout
    \/ on_home_timeout

Spec == Init /\ [][Next]_vars

(***************************************************************************)
(* SpecFaulty: Spec in an environment where, while a handler runs, the     *)
(* calls of any set of services may raise.                                 *)
(***************************************************************************)
\* No service fails, the climate services fail, or the switch services fail.
FailingSets ==
    {{}, {"climate/set_hvac_mode", "climate/set_temperature"},
     {"switch/turn_on", "switch/turn_off"}}

\* Both rooms report a temperature and the timeouts are the defaults.
InitFaulty ==
    /\ InitConfig
    /\ DefaultTimeouts
    /\ InitSensors
    /\ temp_state = [r \in Rooms |-> IF r = "living" THEN Some(170) ELSE Some(220)]
    /\ presence_state \in [Rooms -> SensorStates]
    /\ global_presence_state \in [GlobalSensors -> SensorStates]
    /\ InitActuators
    /\ InitPower
    /\ current_period = "day"
    /\ InitialPresence
    /\ last = NoHandler
    /\ IdleDecide

NextFaulty ==
    \/ \E r \in Rooms, new \in SensorStates : RoomSensorChange(r, new)
    \/ \E g \in GlobalSensors, new \in SensorStates : GlobalSensorChange(g, new)
    \/ \E k \in Slots : TimerExpire(k)
    \/ \E failing \in FailingSets : PresenceChange(ActuationWith(failing))
    \/ \E failing \in FailingSets : GlobalPresenceChange(ActuationWith(failing))
    \/ \E failing \in FailingSets : RoomTimeout(ActuationWith(failing))
    \/ \E failing \in FailingSets : HomeTimeout(ActuationWith(failing))

SpecFaulty == InitFaulty /\ [][NextFaulty]_vars

(***************************************************************************)
(* SpecDecide: get_climate_decision as a function of its inputs.  Init     *)
(* draws the arguments, Decide applies the function.                       *)
(***************************************************************************)
\* <<current_temp, target_temp>>: around a 21.0 target every boundary of the
\* decision (tolerance 0.5 and 1.0, need 1.5, 3.0, 3.1, the eco targets), and
\* targets whose setpoints leave the AC's range.
TempPairs ==
    {<<c, 210>> : c \in {100, 170, 179, 180, 195, 200, 205, 208, 210, 215, 230}}
    \cup {<<100, 120>>, <<330, 310>>}

RenewablePowers == {0, 500, 501, 1500, 1501, 1600}

Forecasts ==
    {EmptyForecast,
     [keys |-> {"temperature", "current_temperature"},
      temperature |-> Some(80), current_temperature |-> Some(100)]}

HeaterReadings == {None, Some(350), Some(360)}

CostPairs == {<<10, 15>>, <<15, 10>>, <<10, 10>>}

RoomConfigs ==
    {[DefaultRoomConfig EXCEPT !.floor_heating_available = f,
                               !.ac_heating_available = h,
                               !.ac_cooling_available = c,
                               !.floor_heating_cost = k[1],
                               !.ac_heating_cost = k[2],
                               !.temp_tolerance = t] :
        f \in BOOLEAN, h \in BOOLEAN, c \in BOOLEAN, k \in CostPairs,
        t \in {None, Some(10)}}

InitQuiet ==
    /\ InitConfig
    /\ DefaultTimeouts
    /\ InitSensors
    /\ temp_state = [r \in Rooms |-> Some(210)]
    /\ presence_state = [r \in Rooms |-> "off"]
    /\ global_presence_state = [g \in GlobalSensors |-> "off"]
    /\ InitActuators
    /\ current_period = "day"
    /\ InitialPresence
    /\ last = NoHandler

InitDecide ==
    /\ InitQuiet
    /\ InitPower
    /\ \E tp \in TempPairs :
          call \in [room_config : RoomConfigs,
                    current_temp : {tp[1]}, target_temp : {tp[2]},
                    window_open : BOOLEAN, room_occupied : BOOLEAN,
                    home_occupied : BOOLEAN, eco_mode : BOOLEAN,
                    renewable_power : RenewablePowers,
                    weather_forecast : Forecasts,
                    heater_state : HeaterReadings]
    /\ decision = BaseDecision("none")
    /\ pc = "call"

Decide ==
    /\ pc = "call"
    /\ decision' = get_climate_decision(call)
    /\ pc' = "done"
    /\ UNCHANGED <<configVars, sensorVars, temp_state, presenceSensorVars,
                   actuatorVars, power, current_period, presenceVars, armed,
                   named, queue, last, call>>

\* The arguments of a call: everything in call but the state of the central
\* heater entity, which _get_central_heater_temp reads while the call runs.
Arguments(c) ==
    [room_config |-> c.room_config, current_temp |-> c.current_temp,
     target_temp |-> c.target_temp, window_open |-> c.window_open,
     room_occupied |-> c.room_occupied, home_occupied |-> c.home_occupied,
     eco_mode |-> c.eco_mode, renewable_power |-> c.renewable_power,
     weather_forecast |-> c.weather_forecast]

\* The central heater entity changes to reading h and get_climate_decision
\* is called again with the same arguments.
DecideAgain(h) ==
    /\ pc = "done"
    /\ h /= call.heater_state
    /\ call' = [call EXCEPT !.heater_state = h]
    /\ decision' = get_climate_decision(call')
    /\ pc' = "done"
    /\ UNCHANGED <<configVars, sensorVars, temp_state, presenceSensorVars,
                   actuatorVars, power, current_period, presenceVars, armed,
                   named, queue, last>>

NextDecide ==
    \/ Decide
    \/ \E h \in HeaterReadings : DecideAgain(h)

SpecDecide == InitDecide /\ [][NextDecide]_vars

(***************************************************************************)
(* SpecApply: a decision applied to a room, and applied again.  Init draws *)
(* the arguments of get_climate_decision and the observed state of the     *)
(* room's actuators; Decide computes the decision; Apply runs              *)
(* _apply_climate_decision with it, twice.                                 *)
(***************************************************************************)
AppliedRoom == "living"

AcModes == {"off", "heat", "cool"}
AcSetpoints == {None, Some(160), Some(215)}

ApplyConfigs == {rc \in RoomConfigs : IsNone(rc.temp_tolerance)}

InitApply ==
    /\ InitConfig
    /\ DefaultTimeouts
    /\ InitSensors
    /\ temp_state = [r \in Rooms |-> Some(210)]
    /\ presence_state = [r \in Rooms |-> "off"]
    /\ global_presence_state = [g \in GlobalSensors |-> "off"]
    /\ \E m \in AcModes, t \in AcSetpoints :
          ac_state = [r \in Rooms |->
                         IF r = AppliedRoom
                         THEN [hvac_mode |-> m, temperature |-> t]
                         ELSE [hvac_mode |-> "off", temperature |-> None]]
    /\ \E f \in {"on", "off"} :
          floor_state = [r \in Rooms |-> IF r = AppliedRoom THEN f ELSE "off"]
    /\ InitPower
    /\ current_period = "day"
    /\ InitialPresence
    /\ last = NoHandler
    /\ \E tp \in TempPairs :
          call \in [room_config : ApplyConfigs,
                    current_temp : {tp[1]}, target_temp : {tp[2]},
                    window_open : BOOLEAN, room_occupied : {TRUE},
                    home_occupied : BOOLEAN, eco_mode : {TRUE},
                    renewable_power : {0, 1501},
                    weather_forecast : {EmptyForecast},
                    heater_state : {None, Some(360)}]
    /\ decision = BaseDecision("none")
    /\ pc = "call"

\* _apply_climate_decision(room_id, decision), every service call succeeding.
Apply ==
    /\ pc \in {"done", "applied"}
    /\ LET a == apply_climate_decision(Actuation, AppliedRoom, decision)
       IN  /\ ac_state' = a.ac
           /\ floor_state' = a.floor
           /\ last' = [op |-> "apply_climate_decision", room |-> AppliedRoom,
                       new |-> "-", evals |-> a.evals, calls |-> a.calls,
                       errors |-> a.errors, raised |-> a.raised]
    /\ pc' = IF pc = "done" THEN "applied" ELSE "reapplied"
    /\ UNCHANGED <<configVars, sensorVars, temp_state, presenceSensorVars, power,
                   current_period, presenceVars, armed, named, queue, call,
                   decision>>

NextApply ==
    \/ Decide
    \/ Apply

SpecApply == InitApply /\ [][NextApply]_vars

(***************************************************************************)
(* SpecPower: the PowerManager's state under its update operations, with   *)
(* any readings.                                                           *)
(***************************************************************************)
SolarValues == {-1600, -301, -300, -100, 0, 200, 600, 1600}
SocValues == {0, 10, 20, 22, 60, 100}
HeaterValues == {340, 350, 360}

\* The building and both rooms are occupied; the living room is 2.0 below
\* its target and the bedroom 2.0 above.
InitPowerSpec ==
    /\ InitConfig
    /\ DefaultTimeouts
    /\ InitSensors
    /\ temp_state = [r \in Rooms |-> IF r = "living" THEN Some(190) ELSE Some(230)]
    /\ presence_state = [r \in Rooms |-> "on"]
    /\ global_presence_state = [g \in GlobalSensors |-> "on"]
    /\ InitActuators
    /\ current_period = "day"
    /\ InitialPresence
    /\ last = NoHandler
    /\ InitPower
    /\ IdleDecide

powerFrame ==
    <<configVars, window_state, target_day_state, target_night_state,
      forecast_data, temp_state, presenceSensorVars,
      current_period, presenceVars, armed, named, queue, decideVars>>

\* _on_solar_excess_change with a number: update_solar_excess, then, when the
\* old state is a number (or empty, read as 0) and the change exceeds
\* solar_threshold_change, every room is evaluated.  An old state float()
\* rejects raises after the update and the handler ends in its except clause.
UpdateSolarExcess(value) ==
    /\ solar_state' = Some(value)
    /\ power' = update_solar_excess(power, value)
    /\ LET significant ==
               /\ ~IsNone(solar_state)
               /\ Abs(value - Val(solar_state)) > SolarThresholdChange
           e == [Env(PresenceNow) EXCEPT !.power = power']
           a == IF significant THEN evaluate_rooms(Actuation, RoomOrder, e)
                ELSE Actuation
       IN  /\ ac_state' = a.ac
           /\ floor_state' = a.floor
           /\ last' = [op |-> "on_solar_excess_change", room |-> "-", new |-> "-",
                       evals |-> a.evals, calls |-> a.calls,
                       errors |-> a.errors, raised |-> a.raised]
    /\ UNCHANGED <<powerFrame, battery_state, heater_state>>

UpdateBatterySoc(value) ==
    /\ battery_state' = Some(value)
    /\ power' = update_battery_soc(power, value)
    /\ last' = NoHandler
    /\ UNCHANGED <<powerFrame, actuatorVars, solar_state, heater_state>>

UpdateHeaterTemperature(value) ==
    /\ heater_state' = Some(value)
    /\ power' = update_heater_temperature(power, value)
    /\ last' = NoHandler
    /\ UNCHANGED <<powerFrame, actuatorVars, solar_state, battery_state>>

\* A sensor becomes unavailable: its change handler rejects the value and the
\* PowerManager is not called.
ReadingLost(which) ==
    /\ solar_state' = IF which = "solar" THEN None ELSE solar_state
    /\ battery_state' = IF which = "battery" THEN None ELSE battery_state
    /\ heater_state' = IF which = "heater" THEN None ELSE heater_state
    /\ last' = NoHandler
    /\ UNCHANGED <<powerFrame, actuatorVars, power>>

\* The sensors change without a handler having run yet, and the periodic
\* update reads them: update_power_status.
UpdatePowerStatus(solar, battery, heater) ==
    /\ solar_state' = solar
    /\ battery_state' = battery
    /\ heater_state' = heater
    /\ power' = update_power_status(power, solar, battery, heater)
    /\ last' = NoHandler
    /\ UNCHANGED <<powerFrame, actuatorVars>>

Nullable(S) == {None} \cup {Some(v) : v \in S}

NextPower ==
    \/ \E v \in SolarValues : UpdateSolarExcess(v)
    \/ \E v \in SocValues : UpdateBatterySoc(v)
    \/ \E v \in HeaterValues : UpdateHeaterTemperature(v)
    \/ \E which \in {"solar", "battery", "heater"} : ReadingLost(which)
    \/ \E s \in Nullable(SolarValues), b \in Nullable(SocValues),
          h \in Nullable(HeaterValues) : UpdatePowerStatus(s, b, h)

SpecPower == InitPowerSpec /\ [][NextPower]_vars

(***************************************************************************)
(* SpecHeater: calculate_optimal_heater_temp as a function of the          *)
(* configuration and the outdoor temperature.  call holds the arguments,   *)
(* decision the result (None before the first call).  Temperatures are in  *)
(* hundredths; every configuration has min_outdoor_temp <= max_outdoor_temp *)
(* and min_heater_temp <= max_heater_temp, and an even sum of the heater   *)
(* bounds where the outdoor range is degenerate.                           *)
(***************************************************************************)
HeaterConfigs ==
    {DefaultHeaterConfig,
     [DefaultHeaterConfig EXCEPT !.min_heater_temp = 3504, !.max_heater_temp = 5496],
     [DefaultHeaterConfig EXCEPT !.min_outdoor_temp = 500, !.max_outdoor_temp = 500,
                                 !.max_heater_temp = 5510],
     [DefaultHeaterConfig EXCEPT !.min_outdoor_temp = 0, !.max_outdoor_temp = 1000,
                                 !.min_heater_temp = 4000, !.max_heater_temp = 4500,
                                 !.default_heater_temp = 6000],
     [DefaultHeaterConfig EXCEPT !.max_heater_temp = 3500,
                                 !.default_heater_temp = 3500],
     [DefaultHeaterConfig EXCEPT !.min_outdoor_temp = -500, !.max_outdoor_temp = 1500,
                                 !.min_heater_temp = 3000, !.max_heater_temp = 6000]}

OutdoorReadings ==
    {None} \cup {Some(t) : t \in {-1500, -1000, -990, 0, 10, 500, 1000,
                                  1990, 2000, 2500}}

InitHeater ==
    /\ InitQuiet
    /\ InitPower
    /\ call \in [config : HeaterConfigs, outdoor_temp : OutdoorReadings]
    /\ decision = None
    /\ pc = "call"

heaterFrame ==
    <<configVars, sensorVars, temp_state, presenceSensorVars, actuatorVars,
      power, current_period, presenceVars, armed, named, queue, last>>

\* update_heater_based_on_weather / get_power_status:
\* calculate_optimal_heater_temp with the outdoor temperature of the moment.
CalculateOptimal ==
    /\ pc = "call"
    /\ decision' = Some(calculate_optimal_heater_temp(call.config, call.outdoor_temp))
    /\ pc' = "done"
    /\ UNCHANGED <<heaterFrame, call>>

\* The outdoor temperature changes and the next periodic update calculates
\* again.
OutdoorChange(t) ==
    /\ pc = "done"
    /\ t /= call.outdoor_temp
    /\ call' = [call EXCEPT !.outdoor_temp = t]
    /\ decision' = Some(calculate_optimal_heater_temp(call.config, t))
    /\ pc' = "done"
    /\ UNCHANGED heaterFrame

NextHeater ==
    \/ CalculateOptimal
    \/ \E t \in OutdoorReadings : OutdoorChange(t)

SpecHeater == InitHeater /\ [][NextHeater]_vars

(***************************************************************************)
(* SpecSchedule: the ScheduleManager.  Init draws the living room's        *)
(* schedule configuration, the states of the target temperature entities   *)
(* and the rooms' presence; set_period is called with any argument, the    *)
(* daily period callbacks run, and get_target_temperature is called for a  *)
(* room (call holds its inputs, decision its result).                      *)
(***************************************************************************)
ScheduleConfigs ==
    {[DefaultRoomConfig EXCEPT !.presence_required = pr, !.away_temp = aw,
                               !.target_temp_day = d, !.target_temp_night = n] :
        pr \in {None, Some(TRUE), Some(FALSE)}, aw \in {None, Some(160)},
        d \in {None, Some(225)}, n \in {None, Some(175)}}

PeriodArguments == {"day", "night", "evening", "DAY", ""}

InitSchedule ==
    /\ \E rc \in ScheduleConfigs :
          rooms = [r \in Rooms |-> IF r = "living" THEN rc ELSE BedroomConfig]
    /\ eco_mode = TRUE
    /\ DefaultTimeouts
    /\ window_state = [r \in Rooms |-> "off"]
    /\ \E d \in {None, Some(200)} : target_day_state = [r \in Rooms |-> d]
    /\ \E n \in {None, Some(190)} : target_night_state = [r \in Rooms |-> n]
    /\ heater_state = Some(400)
    /\ solar_state = Some(0)
    /\ battery_state = Some(0)
    /\ forecast_data = EmptyForecast
    /\ temp_state = [r \in Rooms |-> Some(210)]
    /\ presence_state \in [Rooms -> SensorStates]
    /\ global_presence_state = [g \in GlobalSensors |-> "on"]
    /\ InitActuators
    /\ InitPower
    /\ current_period = "day"
    /\ InitialPresence
    /\ last = NoHandler
    /\ call = [room |-> "-"]
    /\ decision = None
    /\ pc = "call"

\* set_period(period)
SetPeriod(period) ==
    /\ current_period' = set_period(current_period, period)
    /\ last' = [NoHandler EXCEPT !.op = "set_period", !.new = period]
    /\ UNCHANGED <<configVars, sensorVars, temp_state, presenceSensorVars,
                   actuatorVars, power, presenceVars, armed, named, queue,
                   decideVars>>

\* _on_day_period_start / _on_night_period_start: set_period, then every
\* room is evaluated with the new period.
PeriodStart(period) ==
    /\ current_period' = set_period(current_period, period)
    /\ LET e == [Env(PresenceNow) EXCEPT !.period = current_period']
           a == evaluate_rooms(Actuation, RoomOrder, e)
       IN  /\ ac_state' = a.ac
           /\ floor_state' = a.floor
           /\ last' = [op |-> "on_" \o period \o "_period_start", room |-> "-",
                       new |-> period, evals |-> a.evals, calls |-> a.calls,
                       errors |-> a.errors, raised |-> a.raised]
    /\ UNCHANGED <<configVars, sensorVars, temp_state, presenceSensorVars,
                   power, presenceVars, armed, named, queue, decideVars>>

\* get_target_temperature(room_id)
GetTargetTemperature(r) ==
    /\ call' = [room |-> r, room_config |-> rooms[r],
                room_occupied |-> room_presence[r], period |-> current_period,
                day_state |-> target_day_state[r],
                night_state |-> target_night_state[r]]
    /\ decision' = Some(get_target_temperature(rooms[r], room_presence[r],
                            current_period, target_day_state[r],
                            target_night_state[r]))
    /\ pc' = "done"
    /\ last' = NoHandler
    /\ UNCHANGED <<configVars, sensorVars, temp_state, presenceSensorVars,
                   actuatorVars, power, current_period, presenceVars, armed,
                   named, queue>>

NextSchedule ==
    \/ \E period \in PeriodArguments : SetPeriod(period)
    \/ \E period \in {"day", "night"} : PeriodStart(period)
    \/ \E r \in Rooms : GetTargetTemperature(r)

SpecSchedule == InitSchedule /\ [][NextSchedule]_vars

(***************************************************************************)
(* Claims                                                                  *)
(***************************************************************************)
\* C1: with the window open the decision is no_action, AC off, no setpoint,
\* floor heating off, whatever the other inputs are.
C1_WindowOpenNoAction ==
    (pc = "done" /\ call.window_open) =>
        /\ decision.action = "no_action"
        /\ decision.ac_mode = "off"
        /\ decision.ac_temp = None
        /\ decision.floor_heating = FALSE

\* A call with the window open in a room that would otherwise be heated by
\* both actuators.
C1_Witness ==
    /\ pc = "done"
    /\ call.window_open
    /\ get_climate_decision([call EXCEPT !.window_open = FALSE]).action
           = "heat_with_ac_and_floor"
    /\ decision.action = "no_action"

\* C2: whenever the current temperature is within the room's tolerance of the
\* target passed in, the decision is no_action.
C2_WithinToleranceNoAction ==
    (pc = "done"
     /\ Abs(call.current_temp - call.target_temp) <= RoomTolerance(call.room_config))
        => decision.action = "no_action"

\* C3: a decision's AC setpoint lies within [ac_min_temp, ac_max_temp].
C3_SetpointInRange ==
    (pc = "done" /\ decision.ac_temp /= None) =>
        (AcMinTemp <= Val(decision.ac_temp) /\ Val(decision.ac_temp) <= AcMaxTemp)

\* C4: in every reachable PowerState get_available_renewable_power is >= 0.
C4_RenewableNonNegative == get_available_renewable_power(power) >= 0

\* C5: eco mode on and the building unoccupied: a room whose temperature is
\* not below the nominal target minus the tolerance is never heated.
C5_EcoNeverStartsHeating ==
    (pc = "done" /\ call.eco_mode /\ ~call.home_occupied
     /\ call.current_temp >= call.target_temp - RoomTolerance(call.room_config))
        => decision.action \notin HeatingActions

\* C6: eco mode on and the building unoccupied: a room whose temperature is
\* below its nominal target is never cooled.
C6_EcoHeatingDirectionOnly ==
    (pc = "done" /\ call.eco_mode /\ ~call.home_occupied
     /\ call.current_temp < call.target_temp)
        => decision.action /= "cool_with_ac"

\* C7: at the end of the handler of a room's present report the room is
\* occupied, no timeout timer is pending for the room (its stored handle is
\* cleared and the scheduler holds no armed timer for it), the building
\* presence is true, and no building timeout is pending (its stored handle is
\* cleared and the scheduler holds no armed building timer).
C7_PresentReport ==
    (last.op = "on_presence_change" /\ last.new = "on") =>
        /\ room_presence[last.room]
        /\ room_timers[last.room] = None
        /\ armed[last.room] = 0
        /\ global_presence
        /\ home_timer = None
        /\ armed["home"] = 0

\* C8: with a room timeout > 0 a room goes from occupied to unoccupied only
\* in a step that runs the room's timeout callback while the room's sensor
\* reads off.
C8_RoomUnoccupiedOnlyByTimeout ==
    [][\A r \in Rooms :
          (room_timeout > 0 /\ room_presence[r] /\ ~room_presence'[r]) =>
              (last'.op = "on_room_timeout" /\ last'.room = r
               /\ presence_state[r] = "off")]_vars

\* C9: with a building timeout > 0 the building goes from occupied to
\* unoccupied only in a step that runs the building's timeout callback while
\* every global presence sensor reads off.
C9_HomeUnoccupiedOnlyByTimeout ==
    [][(home_timeout > 0 /\ global_presence /\ ~global_presence') =>
          (last'.op = "on_home_timeout"
           /\ \A g \in GlobalSensors : global_presence_state[g] = "off")]_vars

\* C10: a timeout callback that runs while its sensor reads on (a room's
\* sensor for a room timer, any global sensor for the building timer) clears
\* the stored handle and changes nothing else: no occupancy, no actuator, no
\* timer, and it evaluates no room.
C10_StaleFireChangesNothing ==
    [][/\ (last'.op = "on_room_timeout" /\ presence_state[last'.room] = "on") =>
            /\ room_timers' = [room_timers EXCEPT ![last'.room] = None]
            /\ UNCHANGED <<room_presence, global_presence, home_timer, armed,
                           ac_state, floor_state>>
            /\ last'.evals = <<>>
            /\ last'.calls = <<>>
       /\ (last'.op = "on_home_timeout"
           /\ \E g \in GlobalSensors : global_presence_state[g] = "on") =>
            /\ home_timer' = None
            /\ UNCHANGED <<room_presence, global_presence, room_timers, armed,
                           ac_state, floor_state>>
            /\ last'.evals = <<>>
            /\ last'.calls = <<>>]_vars

\* A room's timeout callback has just run while the room's sensor read on
\* and the room was occupied.
C10_Witness ==
    /\ last.op = "on_room_timeout"
    /\ presence_state[last.room] = "on"
    /\ room_presence[last.room]

\* The timeout callbacks dispatched to the app and not yet run, of slot k.
QueuedTimeouts(k) ==
    {i \in 1..Len(queue) :
        queue[i].type \in {"room_timeout", "home_timeout"} /\ queue[i].room = k}

\* C11: with a room timeout of 0 no timer is ever armed for a room, no room
\* timeout callback is pending, and a room reported absent is unoccupied at
\* the end of that report's handler; likewise for the building with a
\* building timeout of 0.
C11_ZeroTimeoutImmediate ==
    /\ room_timeout = 0 =>
          /\ \A r \in Rooms :
                armed[r] = 0 /\ room_timers[r] = None /\ QueuedTimeouts(r) = {}
          /\ (last.op = "on_presence_change" /\ last.new = "off")
                => ~room_presence[last.room]
    /\ home_timeout = 0 =>
          /\ armed["home"] = 0 /\ home_timer = None /\ QueuedTimeouts("home") = {}
          /\ (last.op = "on_global_presence_change" /\ last.new = "off")
                => ~global_presence

\* Both timeouts are 0 and a room that was occupied has just been reported
\* absent.
C11_Witness ==
    /\ room_timeout = 0
    /\ home_timeout = 0
    /\ last.op = "on_presence_change"
    /\ last.new = "off"
    /\ ~room_presence[last.room]
    /\ armed[last.room] = 0

C13_ReapplyIssuesNoCall ==
    pc = "reapplied" => (last.calls = <<>> /\ last.errors = <<>> /\ ~last.raised)

\* A cooling decision has been applied twice to a room whose AC showed
\* neither its mode nor its setpoint before.
C13_Witness ==
    /\ pc = "reapplied"
    /\ decision.action = "cool_with_ac"
    /\ decision.ac_temp = Some(205)
    /\ ac_state[AppliedRoom] = [hvac_mode |-> "cool", temperature |-> Some(205)]
    /\ last.calls = <<>>

\* C14: two calls of get_climate_decision with the same arguments return the
\* same decision and leave the PresenceManager's, the PowerManager's and the
\* ScheduleManager's state as it was, whatever else changed in between.
C14_DecisionDeterministic ==
    [][(pc = "done" /\ pc' = "done" /\ Arguments(call') = Arguments(call)) =>
          /\ decision' = decision
          /\ UNCHANGED <<room_presence, global_presence, room_timers, home_timer,
                         power, current_period>>]_vars

\* The target a call is decided against, and what the call needs.
EffectiveTargetOf(c) ==
    EffectiveTarget(c.current_temp, c.target_temp, c.home_occupied, c.eco_mode)
Need(c) == EffectiveTargetOf(c) - c.current_temp
HeatingNeeded(c) ==
    ~c.window_open /\ c.current_temp < EffectiveTargetOf(c) - RoomTolerance(c.room_config)
CoolingNeeded(c) ==
    ~c.window_open /\ c.current_temp > EffectiveTargetOf(c) + RoomTolerance(c.room_config)

\* C15: heating needed (need at least 1.5), floor heating available with the
\* hot water at or above heater_min_temp, AC heating available: when the
\* renewable power exceeds solar_excess_threshold or the need exceeds 3.0 the
\* decision is heat_with_ac_and_floor, ac_mode heat, setpoint
\* min(ac_max_temp, effective target + 0.5), floor_heating true; when the need
\* is at most 3.0 and the renewable power at most the threshold it is not
\* heat_with_ac_and_floor.
C15_BothWhenRenewableOrLargeNeed ==
    (/\ pc = "done"
     /\ HeatingNeeded(call)
     /\ Need(call) >= SmallDifference
     /\ call.room_config.floor_heating_available
     /\ get_central_heater_temp(call.heater_state) >= HeaterMinTemp
     /\ call.room_config.ac_heating_available) =>
        /\ (call.renewable_power > SolarExcessThreshold \/ Need(call) > LargeDifference) =>
              /\ decision.action = "heat_with_ac_and_floor"
              /\ decision.ac_mode = "heat"
              /\ decision.ac_temp = Some(Min(AcMaxTemp, EffectiveTargetOf(call) + HeatingOffset))
              /\ decision.floor_heating = TRUE
        /\ (call.renewable_power <= SolarExcessThreshold /\ Need(call) <= LargeDifference) =>
              decision.action /= "heat_with_ac_and_floor"

\* C16: cooling needed and AC cooling available: the decision is cool_with_ac,
\* ac_mode cool, floor heating off, with setpoint
\* max(ac_min_temp, effective target - 1.0) when the renewable power exceeds
\* three times solar_excess_threshold and max(ac_min_temp, effective target -
\* 0.5) otherwise.
C16_CoolingSetpoint ==
    (pc = "done" /\ CoolingNeeded(call) /\ call.room_config.ac_cooling_available) =>
        /\ decision.action = "cool_with_ac"
        /\ decision.ac_mode = "cool"
        /\ decision.floor_heating = FALSE
        /\ decision.ac_temp =
              Some(IF call.renewable_power > 3 * SolarExcessThreshold
                   THEN Max(AcMinTemp, EffectiveTargetOf(call) - AggressiveCoolingOffset)
                   ELSE Max(AcMinTemp, EffectiveTargetOf(call) - CoolingOffset))

\* Scenario B: 23.0 against a target of 21.0 with 1600 W, the building
\* occupied: aggressive cooling at 20.0.
C16_Witness ==
    /\ pc = "done"
    /\ ~call.window_open
    /\ call.home_occupied
    /\ call.current_temp = 230
    /\ call.target_temp = 210
    /\ call.renewable_power = 1600
    /\ decision.action = "cool_with_ac"
    /\ decision.ac_temp = Some(200)

\* C17: for a fixed solar_excess, get_available_renewable_power does not
\* decrease when the battery state of charge rises within
\* [min_battery_percent, 100]: every update that leaves solar_excess alone and
\* moves the state of charge from s1 to s2 >= s1 in that range leaves the
\* available power at least as large.
C17_MonotoneInSoc ==
    [][(/\ power'.solar_excess = power.solar_excess
        /\ power.battery_state_of_charge \in MinBatteryPercent..100
        /\ power'.battery_state_of_charge \in MinBatteryPercent..100
        /\ power.battery_state_of_charge <= power'.battery_state_of_charge)
       => get_available_renewable_power(power)
            <= get_available_renewable_power(power')]_vars
C17_Witness ==
    /\ power.battery_state_of_charge = 60
    /\ power.solar_excess = 200
    /\ battery_state = Some(60)
    /\ get_available_renewable_power(power) = 500

\* C18: calculate_optimal_heater_temp returns, for an available outdoor
\* temperature and a non-degenerate outdoor range, the linear interpolation of
\* the clamped outdoor temperature: max_heater_temp at or below
\* min_outdoor_temp, min_heater_temp at or above max_outdoor_temp, always
\* within [min_heater_temp, max_heater_temp] and non-increasing in the outdoor
\* temperature; a degenerate range returns the midpoint of the heater range
\* and an unavailable outdoor temperature the configured default.
C18_LinearInterpolation ==
    pc = "done" =>
      LET c == call.config
          temp_range == c.max_outdoor_temp - c.min_outdoor_temp
          r == Val(decision)
      IN  IF IsNone(call.outdoor_temp) THEN r = c.default_heater_temp
          ELSE IF temp_range = 0
               THEN 2 * r = c.min_heater_temp + c.max_heater_temp
          ELSE LET t == Val(call.outdoor_temp)
               IN  /\ r * temp_range = InterpolationNum(c, ClampOutdoor(c, t))
                   /\ t <= c.min_outdoor_temp => r = c.max_heater_temp
                   /\ t >= c.max_outdoor_temp => r = c.min_heater_temp
                   /\ c.min_heater_temp <= r /\ r <= c.max_heater_temp
                   /\ \A o \in OutdoorReadings \ {None} :
                         Val(o) >= t => calculate_optimal_heater_temp(c, o) <= r

\* C18 as amended: the result is that interpolation rounded to one decimal,
\* so it lies within 0.05 of it, of max_heater_temp at or below
\* min_outdoor_temp, of min_heater_temp at or above max_outdoor_temp, and of
\* the range [min_heater_temp, max_heater_temp]; it is non-increasing in the
\* outdoor temperature; a degenerate range returns the midpoint and an
\* unavailable outdoor temperature the configured default.
C18_RoundedInterpolation ==
    pc = "done" =>
      LET c == call.config
          temp_range == c.max_outdoor_temp - c.min_outdoor_temp
          r == Val(decision)
      IN  IF IsNone(call.outdoor_temp) THEN r = c.default_heater_temp
          ELSE IF temp_range = 0
               THEN 2 * r = c.min_heater_temp + c.max_heater_temp
          ELSE LET t == Val(call.outdoor_temp)
               IN  /\ r % 10 = 0
                   /\ Abs(r * temp_range - InterpolationNum(c, ClampOutdoor(c, t)))
                        <= 5 * temp_range
                   /\ t <= c.min_outdoor_temp => Abs(r - c.max_heater_temp) <= 5
                   /\ t >= c.max_outdoor_temp => Abs(r - c.min_heater_temp) <= 5
                   /\ c.min_heater_temp - 5 <= r /\ r <= c.max_heater_temp + 5
                   /\ \A o \in OutdoorReadings \ {None} :
                         Val(o) >= t => calculate_optimal_heater_temp(c, o) <= r
C18_Witness ==
    /\ pc = "done"
    /\ call.config = DefaultHeaterConfig
    /\ call.outdoor_temp = Some(0)
    /\ decision = Some(4830)

C20_ActuatorFailureContained ==
    /\ last.op /= "none" => ~last.raised
    /\ (last.op = "on_global_presence_change"
          \/ (last.op = "on_home_timeout" /\ AllAway)) =>
          last.evals = RoomOrder

\* C21: a power update made while a reading (solar export, battery state of
\* charge, hot-water temperature) is unavailable or not a number leaves the
\* corresponding PowerState field as it was, and a rejected change of one
\* reading leaves every field as it was.
C21_InvalidReadingKeepsField ==
    [][/\ IsNone(solar_state') => power'.solar_excess = power.solar_excess
       /\ IsNone(battery_state') =>
             /\ power'.battery_state_of_charge = power.battery_state_of_charge
             /\ power'.battery_energy_left = power.battery_energy_left
       /\ IsNone(heater_state') =>
             power'.heater_temperature = power.heater_temperature
       /\ (IsNone(solar_state') /\ IsNone(battery_state') /\ IsNone(heater_state'))
             => power' = power]_vars

\* The solar reading is lost while the PowerManager holds an export of
\* 1600 W, a charge of 60% and a hot-water temperature of 36.0.
C21_Witness ==
    /\ IsNone(solar_state)
    /\ power.solar_excess = -1600
    /\ power.battery_state_of_charge = 60
    /\ power.battery_energy_left = BatteryEnergyLeft(60)
    /\ power.heater_temperature = 360

\* C22: set_period accepts day and night only: a call with any other value
\* leaves current_period as it was, a call with day or night sets it, and
\* current_period is day or night in every reachable state.
C22_PeriodDayOrNight ==
    /\ [](current_period \in {"day", "night"})
    /\ [][last'.op = "set_period" =>
            current_period' = IF last'.new \in {"day", "night"} THEN last'.new
                              ELSE current_period]_vars

\* set_period was just called with a value it rejects while the period was
\* night.
C22_Witness ==
    /\ last.op = "set_period"
    /\ last.new = "evening"
    /\ current_period = "night"

\* C23: get_target_temperature returns, for a room whose presence_required is
\* true and which is unoccupied, the room's away temperature when one is
\* configured and else the night temperature, whatever the current period;
\* for any other room the current period's temperature.  A period's
\* temperature is the room's fixed value, else the entity's value, else the
\* default (21.0 day, 18.0 night).
C23_TargetTemperature ==
    pc = "done" =>
      LET rc == call.room_config
          day == IF rc.target_temp_day /= None THEN Val(rc.target_temp_day)
                 ELSE IF call.day_state /= None THEN Val(call.day_state)
                 ELSE 210
          night == IF rc.target_temp_night /= None THEN Val(rc.target_temp_night)
                   ELSE IF call.night_state /= None THEN Val(call.night_state)
                   ELSE 180
      IN  IF rc.presence_required = Some(TRUE) /\ ~call.room_occupied
          THEN decision = IF rc.away_temp /= None THEN rc.away_temp ELSE Some(night)
          ELSE decision = Some(IF call.period = "day" THEN day ELSE night)

\* During the day, the target of an unoccupied room that requires presence
\* and has no away temperature was asked for: it is the night entity's 19.0.
C23_Witness ==
    /\ pc = "done"
    /\ call.period = "day"
    /\ call.room_config.presence_required = Some(TRUE)
    /\ ~call.room_occupied
    /\ call.room_config.away_temp = None
    /\ call.room_config.target_temp_night = None
    /\ decision = Some(190)

\* The decision _evaluate_room takes for room r in the current state.
EvaluatedDecision(r) == get_climate_decision(Snapshot(r, Env(PresenceNow)))

\* C24: in a PowerState whose solar export is not beyond min_solar_excess and
\* whose battery is at or below min_battery_percent, whatever the grid import,
\* no room evaluated by the solar handler gets a decision of a renewable-power
\* branch: heat_with_ac_and_floor is chosen only for a need above 3.0, and a
\* cooling setpoint is max(ac_min_temp, target - 0.5).
C24_NoRenewableBranchWithoutRenewables ==
    (/\ last.op = "on_solar_excess_change"
     /\ power.solar_excess >= -MinSolarExcess
     /\ power.battery_state_of_charge <= MinBatteryPercent) =>
       \A i \in DOMAIN last.evals :
          LET c == Snapshot(last.evals[i], Env(PresenceNow))
              d == EvaluatedDecision(last.evals[i])
          IN  /\ d.action = "heat_with_ac_and_floor" => Need(c) > LargeDifference
              /\ d.action = "cool_with_ac" =>
                    d.ac_temp = Some(Max(AcMinTemp, EffectiveTargetOf(c) - CoolingOffset))

\* C25: heating needed with a need below 1.5, floor heating available and
\* the hot water at or above heater_min_temp, equality included: the decision
\* is heat_with_floor.
C25_FloorUsableAtThreshold ==
    (/\ pc = "done"
     /\ HeatingNeeded(call)
     /\ Need(call) < SmallDifference
     /\ call.room_config.floor_heating_available
     /\ get_central_heater_temp(call.heater_state) >= HeaterMinTemp) =>
        decision.action = "heat_with_floor"

\* C26: heating needed, floor heating available with the hot water at or
\* above heater_min_temp, need below 1.5: the decision is heat_with_floor with
\* ac_mode off and no setpoint, whatever the renewable power, the AC's
\* availability, the weather trend and the cost factors; at a need of exactly
\* 1.5 with AC heating available and more than solar_excess_threshold of
\* renewable power the decision is not floor heating alone.
C26_SmallNeedFloorAlone ==
    (/\ pc = "done"
     /\ HeatingNeeded(call)
     /\ call.room_config.floor_heating_available
     /\ get_central_heater_temp(call.heater_state) >= HeaterMinTemp) =>
        /\ Need(call) < SmallDifference =>
              /\ decision.action = "heat_with_floor"
              /\ decision.ac_mode = "off"
              /\ decision.ac_temp = None
              /\ decision.floor_heating = TRUE
        /\ (/\ Need(call) = SmallDifference
            /\ call.room_config.ac_heating_available
            /\ call.renewable_power > SolarExcessThreshold) =>
              decision.action /= "heat_with_floor"

\* C27: heating needed, floor heating available with the hot water at or
\* above heater_min_temp, AC heating available, need within [1.5, 3.0],
\* renewable power at most solar_excess_threshold and a dropping weather
\* trend: the decision is heat_with_floor whatever the cost factors.
C27_DroppingTrendFloorAlone ==
    (/\ pc = "done"
     /\ HeatingNeeded(call)
     /\ call.room_config.floor_heating_available
     /\ get_central_heater_temp(call.heater_state) >= HeaterMinTemp
     /\ call.room_config.ac_heating_available
     /\ Need(call) >= SmallDifference /\ Need(call) <= LargeDifference
     /\ call.renewable_power <= SolarExcessThreshold
     /\ get_temperature_trend(call.weather_forecast) = "dropping") =>
        /\ decision.action = "heat_with_floor"
        /\ decision.ac_mode = "off"
        /\ decision.floor_heating = TRUE

\* C28: the same conditions with a trend that is not dropping: the decision
\* uses the actuator with the lower cost factor alone, heat_with_floor when
\* floor_heating_cost <= ac_heating_cost, and otherwise heat_with_ac with
\* setpoint min(ac_max_temp, effective target + 0.5) and the floor off.
C28_CheaperActuator ==
    (/\ pc = "done"
     /\ HeatingNeeded(call)
     /\ call.room_config.floor_heating_available
     /\ get_central_heater_temp(call.heater_state) >= HeaterMinTemp
     /\ call.room_config.ac_heating_available
     /\ Need(call) >= SmallDifference /\ Need(call) <= LargeDifference
     /\ call.renewable_power <= SolarExcessThreshold
     /\ get_temperature_trend(call.weather_forecast) /= "dropping") =>
        IF call.room_config.floor_heating_cost <= call.room_config.ac_heating_cost
        THEN /\ decision.action = "heat_with_floor"
             /\ decision.ac_mode = "off"
             /\ decision.floor_heating = TRUE
        ELSE /\ decision.action = "heat_with_ac"
             /\ decision.ac_mode = "heat"
             /\ decision.ac_temp = Some(Min(AcMaxTemp, EffectiveTargetOf(call) + HeatingOffset))
             /\ decision.floor_heating = FALSE

\* C29: heating needed.  Floor heating unavailable or the hot water below
\* heater_min_temp, and AC heating available: heat_with_ac, ac_mode heat,
\* setpoint min(ac_max_temp, effective target + 0.5), floor off.  Floor
\* heating available with the hot water at or above heater_min_temp, and AC
\* heating unavailable: heat_with_floor for every need.
C29_SingleHeatingOption ==
    (pc = "done" /\ HeatingNeeded(call)) =>
        /\ (/\ (~call.room_config.floor_heating_available
                \/ get_central_heater_temp(call.heater_state) < HeaterMinTemp)
            /\ call.room_config.ac_heating_available) =>
              /\ decision.action = "heat_with_ac"
              /\ decision.ac_mode = "heat"
              /\ decision.ac_temp = Some(Min(AcMaxTemp, EffectiveTargetOf(call) + HeatingOffset))
              /\ decision.floor_heating = FALSE
        /\ (/\ call.room_config.floor_heating_available
            /\ get_central_heater_temp(call.heater_state) >= HeaterMinTemp
            /\ ~call.room_config.ac_heating_available) =>
              /\ decision.action = "heat_with_floor"
              /\ decision.floor_heating = TRUE

\* C30: heating needed with neither AC heating nor floor heating with hot
\* water at or above heater_min_temp, or cooling needed with AC cooling
\* unavailable: the decision is no_action, ac_mode off, no setpoint,
\* floor_heating false.
C30_NoActuatorNoAction ==
    (/\ pc = "done"
     /\ \/ /\ HeatingNeeded(call)
           /\ ~call.room_config.ac_heating_available
           /\ ~(/\ call.room_config.floor_heating_available
                /\ get_central_heater_temp(call.heater_state) >= HeaterMinTemp)
        \/ /\ CoolingNeeded(call)
           /\ ~call.room_config.ac_cooling_available) =>
        /\ decision.action = "no_action"
        /\ decision.ac_mode = "off"
        /\ decision.ac_temp = None
        /\ decision.floor_heating = FALSE

\* A room 2.0 above its target with floor heating (hot water 36.0) and no AC
\* cooling: nothing is done.
C30_Witness ==
    /\ pc = "done"
    /\ CoolingNeeded(call)
    /\ ~call.room_config.ac_cooling_available
    /\ call.room_config.floor_heating_available
    /\ call.heater_state = Some(360)
    /\ call.current_temp = 230
    /\ decision.action = "no_action"
    /\ decision.floor_heating = FALSE

(***************************************************************************)
(* SpecTrend: get_climate_decision called where the weather trend decides. *)
(* The room is 2.0 below its target, no renewable power, the hot water at  *)
(* 36.0, floor heating and AC heating available; Init draws the forecast   *)
(* dict (which keys it holds, and their values) and the cost factors.      *)
(***************************************************************************)
TrendKeySets == SUBSET {"temperature", "current_temperature"}
TrendForecastValues == {None, Some(-50), Some(80), Some(89), Some(90), Some(100), Some(110), Some(111), Some(120)}
TrendCurrentValues == {None, Some(100)}

TrendForecasts ==
    {[keys |-> k,
      temperature |-> IF "temperature" \in k THEN t ELSE None,
      current_temperature |-> IF "current_temperature" \in k THEN c ELSE None] :
        k \in TrendKeySets, t \in TrendForecastValues, c \in TrendCurrentValues}

InitTrend ==
    /\ InitQuiet
    /\ InitPower
    /\ \E k \in CostPairs :
          call \in [room_config : {[DefaultRoomConfig EXCEPT !.floor_heating_cost = k[1], !.ac_heating_cost = k[2]]},
                    current_temp : {190}, target_temp : {210},
                    window_open : {FALSE}, room_occupied : {TRUE},
                    home_occupied : BOOLEAN, eco_mode : {FALSE},
                    renewable_power : {0},
                    weather_forecast : TrendForecasts,
                    heater_state : {Some(360)}]
    /\ decision = BaseDecision("none")
    /\ pc = "call"

NextTrend == Decide

SpecTrend == InitTrend /\ [][NextTrend]_vars

\* A value of the forecast dict is missing when the dict has no such key or
\* holds None for it.
TrendValueMissing(f, key) ==
    \/ key \notin f.keys
    \/ key = "temperature" /\ IsNone(f.temperature)
    \/ key = "current_temperature" /\ IsNone(f.current_temperature)

C32_LastKnownHotWaterUsed ==
    (last.op = "on_solar_excess_change" /\ IsNone(heater_state)) =>
        \A i \in DOMAIN last.evals :
            LET r    == last.evals[i]
                c    == Snapshot(r, Env(PresenceNow))
                held == [c EXCEPT !.heater_state = Some(power.heater_temperature)]
            IN  /\ get_climate_decision(c) = get_climate_decision(held)
                /\ floor_state[r] = "on" <=> get_climate_decision(held).floor_heating

\* C33: once a decision heat_with_ac_and_floor has been applied to the room,
\* its AC is in heat mode at the decision's setpoint and its floor-heating
\* switch is on.
C33_BothActuatorsCommanded ==
    (pc \in {"applied", "reapplied"} /\ decision.action = "heat_with_ac_and_floor") =>
        /\ ac_state[AppliedRoom].hvac_mode = "heat"
        /\ ac_state[AppliedRoom].temperature = decision.ac_temp
        /\ floor_state[AppliedRoom] = "on"

\* C34: once a decision has been applied to the room, every service call
\* succeeding, the room's AC mode is the decision's ac_mode; so after
\* no_action or heat_with_floor the AC is off, whatever it was doing before.
C34_AcModeFollowsDecision ==
    (pc \in {"applied", "reapplied"} /\ ~last.raised /\ last.errors = <<>>) =>
        /\ ac_state[AppliedRoom].hvac_mode = decision.ac_mode
        /\ decision.action \in {"no_action", "heat_with_floor"} =>
              ac_state[AppliedRoom].hvac_mode = "off"

\* C35: every decision get_climate_decision returns is consistent with its
\* action: no_action has AC off, no setpoint, floor off; heat_with_floor has
\* AC off, no setpoint, floor on; heat_with_ac has AC heat, a setpoint, floor
\* off; heat_with_ac_and_floor has AC heat, a setpoint, floor on; cool_with_ac
\* has AC cool, a setpoint, floor off.
C35_DecisionConsistent ==
    pc = "done" =>
        /\ decision.action \in {"no_action", "heat_with_floor", "heat_with_ac", "heat_with_ac_and_floor", "cool_with_ac"}
        /\ decision.ac_mode = (CASE decision.action \in {"no_action", "heat_with_floor"} -> "off"
                                 [] decision.action \in {"heat_with_ac", "heat_with_ac_and_floor"} -> "heat"
                                 [] OTHER -> "cool")
        /\ IsNone(decision.ac_temp) <=> decision.action \in {"no_action", "heat_with_floor"}
        /\ decision.floor_heating <=> decision.action \in {"heat_with_floor", "heat_with_ac_and_floor"}

\* A call decided as heat_with_ac_and_floor, and consistent.
C35_Witness ==
    /\ pc = "done"
    /\ decision.action = "heat_with_ac_and_floor"
    /\ decision.ac_mode = "heat"
    /\ ~IsNone(decision.ac_temp)
    /\ decision.floor_heating

\* The handle PresenceManager stores for slot k.
StoredHandle(k) == IF k = "home" THEN home_timer ELSE room_timers[k]

\* C36: between handlers every room and the building have at most one armed
\* timeout timer, and an armed timer is the one the stored handle names.
C36_OneTimerPerSlot ==
    \A k \in Slots :
        /\ armed[k] <= 1
        /\ armed[k] = 1 => (~IsNone(StoredHandle(k)) /\ named[k] = "armed")

\* C37: when every event has been handled and at least one global presence
\* sensor reads on, the building is occupied.
C37_OccupiedWhileAnyGlobalSensorOn ==
    (queue = <<>> /\ \E g \in GlobalSensors : global_presence_state[g] = "on") =>
        global_presence

\* Nothing is left to run: no callback is queued and no timer is armed.
Quiescent == queue = <<>> /\ \A k \in Slots : armed[k] = 0

\* C38: once every presence sensor reads off, every event has been handled
\* and every timer has fired, the building and every room are unoccupied.
\* (From such a state nothing changes until a sensor does, so a building
\* presence still true there stays true for as long as the sensors stay off.)
C38_EventuallyUnoccupied ==
    (/\ Quiescent
     /\ \A r \in Rooms : presence_state[r] = "off"
     /\ \A g \in GlobalSensors : global_presence_state[g] = "off") =>
        /\ ~global_presence
        /\ \A r \in Rooms : ~room_presence[r]

\* C39: a handler that changes the building presence value evaluates every
\* configured room before it returns.
C39_ReevaluateOnBuildingPresenceChange ==
    [][global_presence' /= global_presence =>
          \A r \in Rooms : \E i \in DOMAIN last'.evals : last'.evals[i] = r]_vars

\* C40: the solar handler called with a number stores it in
\* PowerState.solar_excess, and evaluates every room when the number differs
\* from the previous reading by more than solar_threshold_change; with a
\* previous reading that is not a number it does so at least when the number
\* differs that much both from 0 and from the last value PowerState held.
C40_SolarChangeHandled ==
    [][last'.op = "on_solar_excess_change" =>
          LET new_value == Val(solar_state')
              far(old_value) == Abs(new_value - old_value) > SolarThresholdChange
              significant == IF IsNone(solar_state)
                             THEN far(0) /\ far(power.solar_excess)
                             ELSE far(Val(solar_state))
          IN  /\ power'.solar_excess = new_value
              /\ significant =>
                    \A r \in Rooms : \E i \in DOMAIN last'.evals : last'.evals[i] = r]_vars

====
